---- MODULE Spec2Model ----
(***************************************************************************)
(* Model of src/app.py: the paginated fetch of load_data, its date         *)
(* normalisation and duplicate removal, the "All Tables" combination, and  *)
(* the two comparisons of a date column against the current moment.        *)
(***************************************************************************)
EXTENDS Integers, Sequences, FiniteSets, TLC

(***************************************************************************)
(* Bounds of the model.                                                    *)
(***************************************************************************)
\* page size requested by load_data (app.py:26 sets 1000; scaled down here)
limit == 2
\* the remote table serves at most this many full pages before a short one
MaxFullPages == 2
\* longest raw frame the cleaning is applied to in SpecClean
MaxLen == 3

(***************************************************************************)
(* Names of the program.                                                   *)
(***************************************************************************)
Tables == <<"betting_analytics", "ev_daily_bets", "matched_betting_bets">>

TableNames == {Tables[i] : i \in 1..3}

TableOptions == TableNames \cup {"All Tables"}

DuplicateOptions == {"Keep all bookmakers", "Keep first occurrence only"}

\* date_cols of load_data
date_cols == {"start_time", "bet_logged", "created_at"}

\* unique_cols of load_data
unique_cols == {"event", "start_time", "outcome", "stake", "odds"}

\* unique_cols of remove_duplicate_bets
rdb_unique_cols == {"event", "start_time", "outcome", "stake", "odds"}

\* response.status_code == 200
OK == 200

\* the statuses a failed request answers with
ErrStatuses == {500}

(***************************************************************************)
(* Rows.  A row is a function from column names to values.  Raw date       *)
(* values are strings: "T1Z" and "T1+00" are two spellings of the same     *)
(* instant, "junk" does not parse.                                         *)
(***************************************************************************)
RawDates == {"junk", "T1Z", "T1+00"}

BaseRows ==
  { [id |-> i, event |-> "A vs B", start_time |-> s, outcome |-> "A",
     stake |-> 100, odds |-> 2, bookmaker |-> b,
     bet_logged |-> "T1Z", created_at |-> "T1Z"] :
       i \in {1, 2}, s \in RawDates, b \in {"X", "Y"} }

Project(r, cols) == [c \in cols |-> r[c]]

RowsOver(cols) == { Project(r, cols) : r \in BaseRows }

\* pd.to_datetime(value, errors='coerce', utc=True) on one value
ToDatetime(v) ==
  CASE v \in {"T1Z", "T1+00"} -> "1970-01-01T00:00:01+00:00"
    [] OTHER -> "NaT"

\* the date-conversion loop of load_data over the rows; failed is the set of
\* columns for which pd.to_datetime raised (the column is then kept as it was)
ConvertDates(rows, failed) ==
  [ i \in 1..Len(rows) |->
      [ c \in DOMAIN rows[i] |->
          IF c \in date_cols /\ c \notin failed
            THEN ToDatetime(rows[i][c]) ELSE rows[i][c] ] ]

(***************************************************************************)
(* DataFrame.drop_duplicates(subset, keep='first'): scan in row order,     *)
(* keep a row when its subset key was not seen before.                     *)
(***************************************************************************)
KeyOf(r, subset) == [c \in subset |-> r[c]]

RECURSIVE ScanKeepFirst(_, _, _, _)
ScanKeepFirst(rows, subset, i, seen) ==
  IF i > Len(rows) THEN <<>>
  ELSE LET k == KeyOf(rows[i], subset) IN
       IF k \in seen
         THEN ScanKeepFirst(rows, subset, i + 1, seen)
         ELSE <<rows[i]>> \o ScanKeepFirst(rows, subset, i + 1, seen \cup {k})

RECURSIVE ScanKeepLast(_, _, _)
ScanKeepLast(rows, subset, i) ==
  IF i > Len(rows) THEN <<>>
  ELSE IF \E j \in (i + 1)..Len(rows) : KeyOf(rows[j], subset) = KeyOf(rows[i], subset)
         THEN ScanKeepLast(rows, subset, i + 1)
         ELSE <<rows[i]>> \o ScanKeepLast(rows, subset, i + 1)

\* mutant: keep='last'
DropDuplicatesKeepLast(rows, subset) == ScanKeepLast(rows, subset, 1)

DropDuplicates(rows, subset) == ScanKeepFirst(rows, subset, 1, {})

ColumnsOf(rows) == IF rows = <<>> THEN {} ELSE DOMAIN rows[1]

\* mutant: the id rule first, the business-key rule second
DedupeIdFirst(table_name, rows) ==
  LET cols == ColumnsOf(rows)
      d1 == IF "id" \in cols THEN DropDuplicates(rows, {"id"}) ELSE rows
  IN  IF table_name = "ev_daily_bets" /\ unique_cols \subseteq cols
        THEN DropDuplicates(d1, unique_cols) ELSE d1

\* mutant: the id rule is skipped
DedupeNoId(table_name, rows) ==
  LET cols == ColumnsOf(rows)
  IN  IF table_name = "ev_daily_bets" /\ unique_cols \subseteq cols
        THEN DropDuplicates(rows, unique_cols) ELSE rows

\* the duplicate removal of load_data (app.py:76-84)
Dedupe(table_name, rows) ==
  LET cols == ColumnsOf(rows)
      d1 == IF table_name = "ev_daily_bets" /\ unique_cols \subseteq cols
              THEN DropDuplicates(rows, unique_cols) ELSE rows
  IN  IF "id" \in cols THEN DropDuplicates(d1, {"id"}) ELSE d1

\* mutant: remove_duplicate_bets with a shorter column list
RemoveDuplicateBetsShortKey(rows, table_name) ==
  IF table_name = "ev_daily_bets" /\ {"event", "outcome"} \subseteq ColumnsOf(rows)
    THEN DropDuplicates(rows, {"event", "outcome"}) ELSE rows

\* remove_duplicate_bets(df, table_name) on the rows of df
RemoveDuplicateBets(rows, table_name) ==
  IF table_name = "ev_daily_bets" /\ rdb_unique_cols \subseteq ColumnsOf(rows)
    THEN DropDuplicates(rows, rdb_unique_cols) ELSE rows

(***************************************************************************)
(* Frames.  None is what load_data returns without rows.                   *)
(***************************************************************************)
None == [kind |-> "None"]

\* tz: the columns whose dtype is datetime64[ns, UTC]
DataFrame(rows, tz) == [kind |-> "DataFrame", rows |-> rows, tz |-> tz]

\* mutant: an empty frame is returned when no row was fetched
CleanFrameEmptyFrame(table_name, all_data, failed) ==
  DataFrame(Dedupe(table_name, ConvertDates(all_data, failed)),
            (ColumnsOf(all_data) \cap date_cols) \ failed)

\* the tail of load_data, after the loop (app.py:53-92)
CleanFrame(table_name, all_data, failed) ==
  IF all_data = <<>> THEN None
  ELSE DataFrame(Dedupe(table_name, ConvertDates(all_data, failed)),
                 (ColumnsOf(all_data) \cap date_cols) \ failed)


Unset == [kind |-> "unset"]

ColumnsOfFrame(f) == IF f.kind = "DataFrame" THEN ColumnsOf(f.rows) ELSE {}

\* dtype of a column of a frame: load_data converts with utc=True, so a
\* converted column is timezone-aware; an unconverted one holds raw objects
ColType(f, col) == IF col \in f.tz THEN "aware" ELSE "object"

\* pd.api.types.is_datetime64_any_dtype(df[col])
IsDatetime(f, col) == ColType(f, col) \in {"aware", "naive"}

\* df['data_source'] = name
Tag(f, name) ==
  DataFrame([i \in 1..Len(f.rows) |->
               [c \in DOMAIN f.rows[i] \cup {"data_source"} |->
                  IF c = "data_source" THEN name ELSE f.rows[i][c]]],
            f.tz)

\* the rows of a frame re-indexed to the columns of the combined frame
Reindex(rows, cols) ==
  [i \in 1..Len(rows) |->
     [c \in cols |-> IF c \in DOMAIN rows[i] THEN rows[i][c] ELSE "NaN"]]

\* mutant: concatenation followed by a cross-table id dedupe
ConcatDedupe(f1, f2, f3) ==
  LET cols == ColumnsOfFrame(f1) \cup ColumnsOfFrame(f2) \cup ColumnsOfFrame(f3)
      all  == Reindex(f1.rows, cols) \o Reindex(f2.rows, cols) \o Reindex(f3.rows, cols)
  IN  DataFrame(IF "id" \in cols THEN DropDuplicates(all, {"id"}) ELSE all,
                (f1.tz \cup f2.tz \cup f3.tz))

\* pd.concat([df1, df2, df3], ignore_index=True)
Concat(f1, f2, f3) ==
  LET cols == ColumnsOfFrame(f1) \cup ColumnsOfFrame(f2) \cup ColumnsOfFrame(f3)
      fs   == {f1, f2, f3}
  IN  DataFrame(Reindex(f1.rows, cols) \o Reindex(f2.rows, cols) \o Reindex(f3.rows, cols),
                { c \in cols \cap date_cols :
                    \A f \in fs : c \in ColumnsOfFrame(f) => c \in f.tz })

(***************************************************************************)
(* The pagination loop of load_data.                                       *)
(***************************************************************************)
\* start = page * limit
PageOffset(p) == p * limit

\* mutant: all_data = data
ExtendOverwrite(acc, data) == data

\* all_data.extend(data)
Extend(acc, data) == acc \o data

\* mutant: only an empty page (or an error) ends the loop
LoopBreaksOnEmptyOnly(status, data) == status # OK \/ data = <<>>

\* the three break statements of the loop
LoopBreaks(status, data) ==
  status # OK \/ data = <<>> \/ Len(data) < limit

(***************************************************************************)
(* Date column selection and the moment used by the two comparisons.       *)
(***************************************************************************)
\* mutant: created_at tried before bet_logged
DateColToCheckCreatedFirst(cols) ==
  IF "created_at" \in cols THEN "created_at"
  ELSE IF "bet_logged" \in cols THEN "bet_logged"
  ELSE "start_time"

\* date_col_to_check of the sidebar check
DateColToCheck(cols) ==
  IF "bet_logged" \in cols THEN "bet_logged"
  ELSE IF "created_at" \in cols THEN "created_at"
  ELSE "start_time"

\* date_col of the cumulative-profit chart
CumulativeDateCol(option, cols) ==
  IF option = "matched_betting_bets" \/ (option = "All Tables" /\ "start_time" \in cols)
    THEN "start_time"
  ELSE IF "bet_logged" \in cols THEN "bet_logged"
  ELSE IF "created_at" \in cols THEN "created_at"
  ELSE "start_time"

\* the awareness of the moment after the coercion done by either site:
\* pd.Timestamp.now(tz='UTC') is aware, tz_localize(None) makes it naive
Moment(f, col) ==
  IF IsDatetime(f, col) /\ ColType(f, col) = "naive" THEN "naive" ELSE "aware"


(***************************************************************************)
(* The remote store.  Every row of a table carries the same columns; the   *)
(* rows the dashboard run is served come from ServedRows.                  *)
(***************************************************************************)
Schemas ==
  { {"id", "bookmaker", "event", "start_time", "outcome", "stake", "odds"},
    {"id", "bookmaker", "bet_logged"},
    {"id", "bookmaker", "created_at", "start_time"} }

\* the remote rows, in the order the store returns them: rows 1 and 2 share
\* the business key and differ in id and bookmaker, rows 2 and 3 share the id
RemoteCycle ==
  << [id |-> 1, event |-> "A vs B", start_time |-> "T1Z", outcome |-> "A",
      stake |-> 100, odds |-> 2, bookmaker |-> "X",
      bet_logged |-> "T1Z", created_at |-> "T1Z"],
     [id |-> 2, event |-> "A vs B", start_time |-> "T1+00", outcome |-> "A",
      stake |-> 100, odds |-> 2, bookmaker |-> "Y",
      bet_logged |-> "T1Z", created_at |-> "T1Z"],
     [id |-> 2, event |-> "A vs B", start_time |-> "junk", outcome |-> "A",
      stake |-> 100, odds |-> 2, bookmaker |-> "X",
      bet_logged |-> "junk", created_at |-> "T1Z"],
     [id |-> 1, event |-> "A vs B", start_time |-> "junk", outcome |-> "A",
      stake |-> 100, odds |-> 2, bookmaker |-> "Y",
      bet_logged |-> "T1Z", created_at |-> "junk"] >>

RemoteRow(cols, k) == Project(RemoteCycle[((k - 1) % Len(RemoteCycle)) + 1], cols)

\* the response body to ?limit=..&offset=offset when the store returns n rows
ServePage(cols, offset, n) == [i \in 1..n |-> RemoteRow(cols, offset + i)]

\* the loop is cut off here should it outrun the remote table
MaxRequests == MaxFullPages + 3

(***************************************************************************)
(* State.                                                                  *)
(***************************************************************************)
VARIABLES
  table_option,        \* the "Choose data to display" radio
  duplicate_handling,  \* the "Handle same bets on multiple bookmakers" radio
  columns,             \* remote schema: table name -> set of columns
  pc,                  \* position of the script
  table_name,          \* argument of the load_data call in progress
  page,                \* load_data: page
  all_data,            \* load_data: all_data
  requests,            \* offsets requested by the call in progress, in order
  served,              \* responses received by the call in progress, in order
  loaded,              \* table name -> what load_data returned (Unset before)
  src,                 \* table name -> df1/df2/df3 as they are after line 140
  df,                  \* the frame handed to the metrics and charts
  errors,              \* st.error messages shown
  comparisons,         \* comparisons of a date column with the moment, executed
  again                \* SpecClean: the result of cleaning a cleaned frame

vars == <<table_option, duplicate_handling, columns, pc, table_name, page,
          all_data, requests, served, loaded, src, df, errors, comparisons, again>>

FirstTable(option) == IF option = "All Tables" THEN Tables[1] ELSE option

Init ==
  /\ table_option \in TableOptions
  /\ duplicate_handling \in DuplicateOptions
  /\ columns \in [TableNames -> Schemas]
  /\ pc = "fetch"
  /\ table_name = FirstTable(table_option)
  /\ page = 0
  /\ all_data = <<>>
  /\ requests = <<>>
  /\ served = <<>>
  /\ loaded = [t \in TableNames |-> Unset]
  /\ src = [t \in TableNames |-> Unset]
  /\ df = Unset
  /\ errors = {}
  /\ comparisons = {}
  /\ again = Unset

FullPagesServed == Cardinality({ i \in 1..Len(served) :
                      served[i].status = OK /\ Len(served[i].data) = limit })

(***************************************************************************)
(* One iteration of the while loop of load_data (app.py:28-51).            *)
(***************************************************************************)
LoadPage ==
  /\ pc = "fetch"
  /\ Len(requests) < MaxRequests
  /\ \E status \in {OK} \cup ErrStatuses, n \in 0..limit :
     LET data == ServePage(columns[table_name], PageOffset(page), n) IN
       /\ n = limit => FullPagesServed < MaxFullPages
       /\ status # OK => n = 0
       /\ requests' = Append(requests, PageOffset(page))
       /\ served' = Append(served, [status |-> status, data |-> data])
       /\ IF status = OK
            THEN /\ all_data' = IF data = <<>> THEN all_data ELSE Extend(all_data, data)
                 /\ page' = IF data = <<>> THEN page ELSE page + 1
                 /\ errors' = errors
            ELSE /\ errors' = errors \cup {<<"Error loading data", table_name, status>>}
                 /\ UNCHANGED <<all_data, page>>
       /\ pc' = IF LoopBreaks(status, data) THEN "clean" ELSE "fetch"
  /\ UNCHANGED <<table_option, duplicate_handling, columns, table_name, loaded,
                 src, df, comparisons, again>>

NextTable(t) == CHOOSE i \in 1..3 : Tables[i] = t

(***************************************************************************)
(* The rest of load_data (app.py:53-92) and the return to the caller:      *)
(* in "All Tables" mode the next load_data call begins.                    *)
(***************************************************************************)
FinishLoad ==
  /\ pc = "clean"
  /\ \E failed \in SUBSET (ColumnsOf(all_data) \cap date_cols) :
       loaded' = [loaded EXCEPT ![table_name] = CleanFrame(table_name, all_data, failed)]
  /\ IF table_option = "All Tables" /\ NextTable(table_name) < 3
       THEN /\ table_name' = Tables[NextTable(table_name) + 1]
            /\ pc' = "fetch"
       ELSE /\ table_name' = table_name
            /\ pc' = "loaded"
  /\ page' = 0
  /\ all_data' = <<>>
  /\ requests' = <<>>
  /\ served' = <<>>
  /\ UNCHANGED <<table_option, duplicate_handling, columns, src, df, errors,
                 comparisons, again>>

(***************************************************************************)
(* "All Tables" block (app.py:127-147).                                    *)
(***************************************************************************)
CombineTables ==
  /\ pc = "loaded"
  /\ table_option = "All Tables"
  /\ IF \A t \in TableNames : loaded[t] # None
       THEN LET df1 == Tag(loaded[Tables[1]], Tables[1])
                df2t == Tag(loaded[Tables[2]], Tables[2])
                df2 == IF duplicate_handling = "Keep first occurrence only"
                         THEN DataFrame(RemoveDuplicateBets(df2t.rows, "ev_daily_bets"), df2t.tz)
                         ELSE df2t
                df3 == Tag(loaded[Tables[3]], Tables[3])
            IN  /\ src' = [t \in TableNames |->
                             IF t = Tables[1] THEN df1
                             ELSE IF t = Tables[2] THEN df2 ELSE df3]
                /\ df' = Concat(df1, df2, df3)
                /\ pc' = "info"
                /\ errors' = errors
       ELSE /\ errors' = errors \cup {<<"Failed to load one or more tables">>}
            /\ pc' = "stopped"
            /\ UNCHANGED <<src, df>>
  /\ UNCHANGED <<table_option, duplicate_handling, columns, table_name, page,
                 all_data, requests, served, loaded, comparisons, again>>

(***************************************************************************)
(* Single table block (app.py:148-156).                                    *)
(***************************************************************************)
SingleTable ==
  /\ pc = "loaded"
  /\ table_option # "All Tables"
  /\ IF loaded[table_option] = None
       THEN /\ errors' = errors \cup {<<"Failed to load data", table_option>>}
            /\ pc' = "stopped"
            /\ df' = df
       ELSE /\ df' = IF duplicate_handling = "Keep first occurrence only"
                        /\ table_option = "ev_daily_bets"
                       THEN DataFrame(RemoveDuplicateBets(loaded[table_option].rows,
                                                          "ev_daily_bets"),
                                      loaded[table_option].tz)
                       ELSE loaded[table_option]
            /\ pc' = "info"
            /\ errors' = errors
  /\ UNCHANGED <<table_option, duplicate_handling, columns, table_name, page,
                 all_data, requests, served, loaded, src, comparisons, again>>

(***************************************************************************)
(* Sidebar future-date check (app.py:166-190).  The comparison at line 187 *)
(* runs whenever the column exists; comparing raw objects with a Timestamp *)
(* raises and ends the script run.                                         *)
(***************************************************************************)
SidebarCheck ==
  /\ pc = "info"
  /\ LET col == DateColToCheck(ColumnsOfFrame(df)) IN
       IF col \in ColumnsOfFrame(df)
         THEN /\ comparisons' = comparisons \cup
                   {[site |-> "sidebar", col |-> col,
                     moment |-> Moment(df, col), column |-> ColType(df, col)]}
              /\ pc' = IF ColType(df, col) = "object" THEN "crashed" ELSE "charts"
         ELSE /\ comparisons' = comparisons
              /\ pc' = "charts"
  /\ UNCHANGED <<table_option, duplicate_handling, columns, table_name, page,
                 all_data, requests, served, loaded, src, df, errors, again>>

(***************************************************************************)
(* Cumulative-profit future filter (app.py:343-372, 427-430).              *)
(***************************************************************************)
CumulativeFilter ==
  /\ pc = "charts"
  /\ LET col == CumulativeDateCol(table_option, ColumnsOfFrame(df)) IN
       IF Len(df.rows) > 0 /\ col \in ColumnsOfFrame(df) /\ IsDatetime(df, col)
         THEN comparisons' = comparisons \cup
                   {[site |-> "cumulative", col |-> col,
                     moment |-> Moment(df, col), column |-> ColType(df, col)]}
         ELSE comparisons' = comparisons
  /\ pc' = "done"
  /\ UNCHANGED <<table_option, duplicate_handling, columns, table_name, page,
                 all_data, requests, served, loaded, src, df, errors, again>>

Next ==
  \/ LoadPage
  \/ FinishLoad
  \/ CombineTables
  \/ SingleTable
  \/ SidebarCheck
  \/ CumulativeFilter

Spec == Init /\ [][Next]_vars


(***************************************************************************)
(* SpecClean: the cleaning of load_data and remove_duplicate_bets as       *)
(* functions of the fetched rows, over every raw frame of up to MaxLen     *)
(* rows of BaseRows.                                                       *)
(***************************************************************************)
CleanSchemas ==
  { {"id", "bookmaker", "event", "start_time", "outcome", "stake", "odds"},
    {"bookmaker", "event", "start_time", "outcome", "stake", "odds"},
    {"id", "bookmaker", "event", "start_time", "outcome", "stake"} }

RawFrames(cols) == UNION { [1..n -> RowsOver(cols)] : n \in 1..MaxLen }

InitClean ==
  /\ table_option \in TableNames
  /\ table_name = table_option
  /\ duplicate_handling = "Keep first occurrence only"
  /\ \E cols \in CleanSchemas :
       /\ columns = [t \in TableNames |-> cols]
       /\ all_data \in RawFrames(cols)
  /\ pc = "clean"
  /\ page = 0
  /\ requests = <<>>
  /\ served = <<>>
  /\ loaded = [t \in TableNames |-> Unset]
  /\ src = [t \in TableNames |-> Unset]
  /\ df = Unset
  /\ errors = {}
  /\ comparisons = {}
  /\ again = Unset

\* load_data from line 53 on, applied to the fetched rows
CleanRaw ==
  /\ pc = "clean"
  /\ \E failed \in SUBSET (ColumnsOf(all_data) \cap date_cols) :
       df' = CleanFrame(table_name, all_data, failed)
  /\ pc' = "cleaned"
  /\ UNCHANGED <<table_option, duplicate_handling, columns, table_name, page,
                 all_data, requests, served, loaded, src, errors, comparisons, again>>

\* the duplicate rules of load_data applied to the frame it returned
CleanAgain ==
  /\ pc = "cleaned"
  /\ again' = DataFrame(Dedupe(table_name, df.rows), df.tz)
  /\ pc' = "again"
  /\ UNCHANGED <<table_option, duplicate_handling, columns, table_name, page,
                 all_data, requests, served, loaded, src, df, errors, comparisons>>

\* remove_duplicate_bets applied to the frame load_data returned, as at its
\* two call sites (always on ev_daily_bets data)
CleanRemoveDuplicateBets ==
  /\ pc = "cleaned"
  /\ table_name = "ev_daily_bets"
  /\ again' = DataFrame(RemoveDuplicateBets(df.rows, "ev_daily_bets"), df.tz)
  /\ pc' = "removed"
  /\ UNCHANGED <<table_option, duplicate_handling, columns, table_name, page,
                 all_data, requests, served, loaded, src, df, errors, comparisons>>

NextClean ==
  \/ CleanRaw
  \/ CleanAgain
  \/ CleanRemoveDuplicateBets

SpecClean == InitClean /\ [][NextClean]_vars


(***************************************************************************)
(* Vocabulary of the properties.                                           *)
(***************************************************************************)
RECURSIVE FlattenPages(_)
FlattenPages(s) ==
  IF s = <<>> THEN <<>> ELSE FlattenPages(SubSeq(s, 1, Len(s) - 1)) \o s[Len(s)].data

AllResponsesOK == \A i \in 1..Len(served) : served[i].status = OK

IsShort(resp) == resp.status = OK /\ Len(resp.data) < limit

LoadErrorShown(t) == \E e \in errors : e[1] = "Error loading data" /\ e[2] = t

\* the indices of rows that are the first with their subset key
FirstIndices(rows, subset) ==
  { i \in 1..Len(rows) :
      \A j \in 1..(i - 1) : KeyOf(rows[j], subset) # KeyOf(rows[i], subset) }

\* the subsequence of rows at the indices S, in row order
RowsAt(rows, S) ==
  [ k \in 1..Cardinality(S) |->
      rows[CHOOSE i \in S : Cardinality({ j \in S : j <= i }) = k] ]

KeepFirstBy(rows, subset) == RowsAt(rows, FirstIndices(rows, subset))

\* the fetched rows as load_data holds them when it removes duplicates
Converted == ConvertDates(all_data, (ColumnsOf(all_data) \cap date_cols) \ df.tz)

Cleaned == pc \in {"cleaned", "again", "removed"}

BusinessKeyApplies ==
  table_name = "ev_daily_bets" /\ unique_cols \subseteq ColumnsOf(all_data)

(***************************************************************************)
(* C1.  With every response 200, the pagination loop ends within           *)
(* MaxFullPages + 1 requests (it goes on only while every page so far was  *)
(* full, and can always take its next step), and all_data is the           *)
(* concatenation of the pages received, in order: the first Len(all_data)  *)
(* rows of the remote table, none lost, repeated or reordered.             *)
(***************************************************************************)
C1_PaginationConcat ==
  AllResponsesOK =>
    /\ all_data = FlattenPages(served)
    /\ all_data = ServePage(columns[table_name], 0, Len(all_data))
    /\ Len(requests) <= MaxFullPages + 1
    /\ pc = "fetch" =>
         /\ \A i \in 1..Len(served) : Len(served[i].data) = limit
         /\ ENABLED LoadPage

C1_Witness ==
  /\ pc = "clean"
  /\ AllResponsesOK
  /\ Len(served) = 3
  /\ Len(served[3].data) = 0
  /\ Len(all_data) = 2 * limit

(***************************************************************************)
(* C2.  Requests use offsets 0, limit, 2*limit, ... in order, and a         *)
(* response with fewer than limit rows (empty included) is the last one:   *)
(* the number of requests is the index of the first such page plus one.    *)
(***************************************************************************)
C2_StopsAtShortPage ==
  /\ \A i \in 1..Len(requests) : requests[i] = (i - 1) * limit
  /\ \A i \in 1..Len(served) : IsShort(served[i]) => Len(requests) = i

C2_Witness ==
  /\ pc = "clean"
  /\ Len(requests) = 3
  /\ Len(served[1].data) = limit
  /\ Len(served[2].data) = limit
  /\ IsShort(served[3]) /\ Len(served[3].data) > 0
  /\ Len(all_data) = 2 * limit + Len(served[3].data)

(***************************************************************************)
(* C3.  A table for which a request returned a status other than 200       *)
(* comes back from load_data as None, never as a frame.                    *)
(***************************************************************************)
C3_FailureReturnsNone ==
  \A t \in TableNames :
    (LoadErrorShown(t) /\ loaded[t] # Unset) => loaded[t] = None

(***************************************************************************)
(* C4.  In "All Tables" mode, once a request of any table returned a       *)
(* status other than 200, no combined frame is built.                      *)
(***************************************************************************)
C4_AllOrNothing ==
  (table_option = "All Tables" /\ \E t \in TableNames : LoadErrorShown(t))
    => df = Unset


(***************************************************************************)
(* C5 as claimed.  For ev_daily_bets with the five business-key columns,   *)
(* every business-key tuple among the fetched rows has exactly one row in  *)
(* the returned frame, and it is the first row with that tuple.            *)
(***************************************************************************)
C5_ExactlyOnePerKey ==
  (Cleaned /\ BusinessKeyApplies) =>
    \A i \in 1..Len(Converted) :
      LET k == KeyOf(Converted[i], unique_cols)
          held == { j \in 1..Len(df.rows) : KeyOf(df.rows[j], unique_cols) = k }
      IN  /\ Cardinality(held) = 1
          /\ \A j \in held :
               df.rows[j] = Converted[CHOOSE f \in FirstIndices(Converted, unique_cols) :
                                        KeyOf(Converted[f], unique_cols) = k]

(***************************************************************************)
(* C5 amended.  For ev_daily_bets with the five business-key columns,      *)
(* every business-key tuple (start_time as converted) has at most one row  *)
(* in the returned frame, a row kept is the first fetched row with its     *)
(* tuple, and without an id column every tuple has exactly one row.        *)
(***************************************************************************)
C5_AtMostOnePerKey ==
  (Cleaned /\ BusinessKeyApplies) =>
    /\ \A i \in 1..Len(Converted) :
         LET k == KeyOf(Converted[i], unique_cols)
             held == { j \in 1..Len(df.rows) : KeyOf(df.rows[j], unique_cols) = k }
         IN  /\ Cardinality(held) <= 1
             /\ \A j \in held :
                  df.rows[j] = Converted[CHOOSE f \in FirstIndices(Converted, unique_cols) :
                                           KeyOf(Converted[f], unique_cols) = k]
             /\ "id" \notin ColumnsOf(all_data) => Cardinality(held) = 1
    /\ \A j \in 1..Len(df.rows) : \E i \in 1..Len(Converted) : df.rows[j] = Converted[i]

\* two fetched rows equal on the business key and differing only in
\* bookmaker: the earlier one is the single row returned
C5_Witness ==
  /\ pc = "cleaned"
  /\ BusinessKeyApplies
  /\ "id" \notin ColumnsOf(all_data)
  /\ Len(all_data) = 2
  /\ KeyOf(all_data[1], unique_cols) = KeyOf(all_data[2], unique_cols)
  /\ all_data[1].bookmaker # all_data[2].bookmaker
  /\ Len(df.rows) = 1
  /\ df.rows[1].bookmaker = all_data[1].bookmaker

\* the rows left by the business-key rule, where load_data applies it
KeySurvivors ==
  IF BusinessKeyApplies THEN KeepFirstBy(Converted, unique_cols) ELSE Converted

(***************************************************************************)
(* C6 as claimed.  In a returned frame with an id column no two rows share *)
(* an id, and each row kept is the first fetched row with its id.          *)
(***************************************************************************)
C6_FirstFetchedPerId ==
  (Cleaned /\ "id" \in ColumnsOf(all_data)) =>
    /\ \A i, j \in 1..Len(df.rows) : df.rows[i].id = df.rows[j].id => i = j
    /\ \A j \in 1..Len(df.rows) :
         df.rows[j] = Converted[CHOOSE f \in FirstIndices(Converted, {"id"}) :
                                  Converted[f].id = df.rows[j].id]

(***************************************************************************)
(* C6 amended.  In a returned frame with an id column no two rows share an *)
(* id, every id left by the business-key rule is kept, and the row kept    *)
(* for an id is the first with that id among the rows left by the          *)
(* business-key rule (all fetched rows when that rule does not apply).     *)
(***************************************************************************)
C6_UniqueIdFirstSurvivor ==
  (Cleaned /\ "id" \in ColumnsOf(all_data)) =>
    /\ \A i, j \in 1..Len(df.rows) : df.rows[i].id = df.rows[j].id => i = j
    /\ { df.rows[j].id : j \in 1..Len(df.rows) }
         = { KeySurvivors[i].id : i \in 1..Len(KeySurvivors) }
    /\ \A j \in 1..Len(df.rows) :
         df.rows[j] = KeySurvivors[CHOOSE f \in FirstIndices(KeySurvivors, {"id"}) :
                                     KeySurvivors[f].id = df.rows[j].id]

\* ids [1, 1, 2]: two rows are returned, ids 1 and 2, the first id-1 row kept
C6_Witness ==
  /\ pc = "cleaned"
  /\ "id" \in ColumnsOf(all_data)
  /\ ~BusinessKeyApplies
  /\ Len(all_data) = 3
  /\ all_data[1].id = 1 /\ all_data[2].id = 1 /\ all_data[3].id = 2
  /\ all_data[1] # all_data[2]
  /\ Len(df.rows) = 2
  /\ df.rows[1] = Converted[1]
  /\ df.rows[2] = Converted[3]

BothRulesApply == BusinessKeyApplies /\ "id" \in ColumnsOf(all_data)

(***************************************************************************)
(* C7 as claimed.  When both duplicate rules apply, the returned frame is  *)
(* the fetched rows deduplicated by id first and by business key second.   *)
(***************************************************************************)
C7_IdThenBusinessKey ==
  (Cleaned /\ BothRulesApply) =>
    df.rows = KeepFirstBy(KeepFirstBy(Converted, {"id"}), unique_cols)

(***************************************************************************)
(* C7 amended.  When both duplicate rules apply, the returned frame is the *)
(* fetched rows deduplicated by business key first and by id second, each  *)
(* keeping the first occurrence in current row order.                      *)
(***************************************************************************)
C7_BusinessKeyThenId ==
  (Cleaned /\ BothRulesApply) =>
    df.rows = KeepFirstBy(KeepFirstBy(Converted, unique_cols), {"id"})

\* an input on which the two orders of the rules differ
C7_Witness ==
  /\ pc = "cleaned"
  /\ BothRulesApply
  /\ Len(df.rows) = 1
  /\ Len(KeepFirstBy(KeepFirstBy(Converted, {"id"}), unique_cols)) = 2

(***************************************************************************)
(* C8.  The combined frame is the rows load_data returned for              *)
(* betting_analytics, then ev_daily_bets, then matched_betting_bets, in    *)
(* their order, each tagged with its table; its length is                  *)
(* len(df1) + len(df2) + len(df3).                                         *)
(***************************************************************************)
C8_CombinedIsConcatenation ==
  (table_option = "All Tables" /\ df # Unset) =>
    LET r1 == loaded[Tables[1]].rows
        r2 == loaded[Tables[2]].rows
        r3 == loaded[Tables[3]].rows
        part(i) == IF i <= Len(r1) THEN <<1, r1[i]>>
                   ELSE IF i <= Len(r1) + Len(r2) THEN <<2, r2[i - Len(r1)]>>
                   ELSE <<3, r3[i - Len(r1) - Len(r2)]>>
    IN  /\ Len(df.rows) = Len(r1) + Len(r2) + Len(r3)
        /\ Len(df.rows) = Len(src[Tables[1]].rows) + Len(src[Tables[2]].rows)
                            + Len(src[Tables[3]].rows)
        /\ \A i \in 1..Len(df.rows) :
             /\ df.rows[i].data_source = Tables[part(i)[1]]
             /\ Project(df.rows[i], DOMAIN part(i)[2]) = part(i)[2]

C8_Witness ==
  /\ table_option = "All Tables"
  /\ duplicate_handling = "Keep first occurrence only"
  /\ df # Unset
  /\ Len(loaded[Tables[1]].rows) = 2
  /\ Len(loaded[Tables[2]].rows) = 2
  /\ Len(loaded[Tables[3]].rows) = 1
  /\ Len(df.rows) = 5

(***************************************************************************)
(* C9.  Every comparison of a date column with the current moment is made  *)
(* with the moment of the same timezone-awareness as the column.           *)
(***************************************************************************)
C9_SameAwareness ==
  \A c \in comparisons : c.moment = c.column

(***************************************************************************)
(* C10.  Applying the duplicate rules of load_data, or                     *)
(* remove_duplicate_bets, to a frame load_data returned removes no row and *)
(* keeps the row order.                                                    *)
(***************************************************************************)
C10_DedupeIdempotent ==
  pc \in {"again", "removed"} => again.rows = df.rows

C10_Witness ==
  /\ pc = "removed"
  /\ Len(df.rows) = 2
  /\ Len(all_data) = 3
  /\ again.rows = df.rows


\* the preference order of the date column: start_time first for the matched
\* bets table and the combined frame, otherwise bet_logged, created_at,
\* start_time
PreferredDateCol(option, cols) ==
  IF option \in {"matched_betting_bets", "All Tables"} /\ "start_time" \in cols
    THEN "start_time"
  ELSE IF "bet_logged" \in cols THEN "bet_logged"
  ELSE IF "created_at" \in cols THEN "created_at"
  ELSE "start_time"

(***************************************************************************)
(* C11.  Every comparison of rows with the current moment, in the sidebar  *)
(* check and in the cumulative-profit filter, uses the date column given   *)
(* by the preference order for the active table and the columns present.   *)
(***************************************************************************)
C11_PreferredDateColumn ==
  \A c \in comparisons : c.col = PreferredDateCol(table_option, ColumnsOfFrame(df))

\* the part of C11 that is about the cumulative-profit filter alone
C11_CumulativeSiteOnly ==
  \A c \in comparisons :
    c.site = "cumulative" => c.col = PreferredDateCol(table_option, ColumnsOfFrame(df))


(***************************************************************************)
(* SpecSelect: the script from the return of the load_data calls on, over  *)
(* every set of date columns a table may carry and every outcome of their  *)
(* conversion.  Each table answered one page of at most one row.           *)
(***************************************************************************)
SelectSchemas == { {"id", "bookmaker"} \cup d : d \in SUBSET date_cols }

\* what load_data may have returned for a table
LoadResults(t) ==
  { CleanFrame(t, ServePage(cols[1], 0, n), cols[2]) :
      cols \in { <<c, f>> \in SelectSchemas \X SUBSET date_cols : f \subseteq c },
      n \in {0, 1} }

Loads(option, t) == option \in {"All Tables", t}

InitSelect ==
  /\ table_option \in TableOptions
  /\ duplicate_handling \in DuplicateOptions
  /\ \E r1 \in IF Loads(table_option, Tables[1]) THEN LoadResults(Tables[1]) ELSE {Unset},
        r2 \in IF Loads(table_option, Tables[2]) THEN LoadResults(Tables[2]) ELSE {Unset},
        r3 \in IF Loads(table_option, Tables[3]) THEN LoadResults(Tables[3]) ELSE {Unset} :
       loaded = [t \in TableNames |->
                   IF t = Tables[1] THEN r1 ELSE IF t = Tables[2] THEN r2 ELSE r3]
  /\ columns = [t \in TableNames |->
                  IF loaded[t].kind = "DataFrame"
                    THEN ColumnsOfFrame(loaded[t]) ELSE {"id", "bookmaker"}]
  /\ pc = "loaded"
  /\ table_name = IF table_option = "All Tables" THEN Tables[3] ELSE table_option
  /\ page = 0
  /\ all_data = <<>>
  /\ requests = <<>>
  /\ served = <<>>
  /\ src = [t \in TableNames |-> Unset]
  /\ df = Unset
  /\ errors = {}
  /\ comparisons = {}
  /\ again = Unset

NextSelect ==
  \/ CombineTables
  \/ SingleTable
  \/ SidebarCheck
  \/ CumulativeFilter

SpecSelect == InitSelect /\ [][NextSelect]_vars

SidebarRan == pc \in {"charts", "done", "crashed"}

(***************************************************************************)
(* C11 amended.  The cumulative-profit filter compares on the column of    *)
(* the preference order (start_time for matched_betting_bets and for a     *)
(* combined frame that has it, otherwise bet_logged, created_at,           *)
(* start_time), and makes no comparison when that column is absent or not  *)
(* a datetime column, as for matched_betting_bets without start_time.  The *)
(* sidebar check does not look at the active table: it compares on         *)
(* bet_logged if present, else created_at, else start_time.                *)
(***************************************************************************)
C11_SiteDateColumns ==
  LET cols == ColumnsOfFrame(df) IN
    /\ \A c \in comparisons :
         /\ c.col \in cols
         /\ c.site = "cumulative" =>
              /\ c.col = PreferredDateCol(table_option, cols)
              /\ c.col \in df.tz
         /\ c.site = "sidebar" =>
              \/ c.col = "bet_logged"
              \/ "bet_logged" \notin cols /\ c.col = "created_at"
              \/ {"bet_logged", "created_at"} \cap cols = {} /\ c.col = "start_time"
    /\ (SidebarRan /\ cols \cap date_cols # {}) =>
         \E c \in comparisons : c.site = "sidebar"
    /\ (pc = "done" /\ table_option = "matched_betting_bets") =>
         \A c \in comparisons : c.site = "cumulative" => c.col = "start_time"
    /\ (pc = "done" /\ table_option # "matched_betting_bets"
          /\ PreferredDateCol(table_option, cols) \in df.tz) =>
         \E c \in comparisons : c.site = "cumulative"

\* matched_betting_bets with bet_logged and start_time: the sidebar compared
\* on bet_logged, the cumulative filter on start_time
C11_Witness ==
  /\ pc = "done"
  /\ table_option = "matched_betting_bets"
  /\ {"bet_logged", "start_time"} \subseteq ColumnsOfFrame(df)
  /\ \E c \in comparisons : c.site = "sidebar" /\ c.col = "bet_logged"
  /\ \E c \in comparisons : c.site = "cumulative" /\ c.col = "start_time"


(***************************************************************************)
(* C12.  load_data returns None exactly when it accumulated no row, be it  *)
(* after an empty first page with status 200 or after a failed first       *)
(* request; the caller stops the script, with its failure message and      *)
(* without a frame, exactly when a table it loaded came back as None.      *)
(***************************************************************************)
C12_NoneIffNoRows ==
  [][ /\ pc = "clean" =>
           (loaded'[table_name] = None <=> all_data = <<>>)
      /\ pc = "loaded" =>
           /\ pc' = "stopped" <=>
                \E t \in TableNames : Loads(table_option, t) /\ loaded[t] = None
           /\ pc' = "stopped" =>
                /\ df' = Unset
                /\ errors' \ errors =
                     IF table_option = "All Tables"
                       THEN {<<"Failed to load one or more tables">>}
                       ELSE {<<"Failed to load data", table_option>>}
    ]_vars

\* "All Tables": one table answered 200 with an empty first page, no request
\* failed, and the script stopped
C12_Witness ==
  /\ pc = "stopped"
  /\ table_option = "All Tables"
  /\ \A t \in TableNames : ~LoadErrorShown(t)
  /\ Cardinality({ t \in TableNames : loaded[t] = None }) = 1

====
